---- MODULE Spec2Model ----
(***************************************************************************)
(* The chat widget of static/js/chat.js as a state machine.                *)
(*                                                                         *)
(* The widget is a set of event handlers closed over three variables       *)
(* (currentLessonPlan, currentLessonIndex, isFirstMessage) and a handful   *)
(* of DOM nodes.  JavaScript runs each handler to its next await without   *)
(* interruption, so one action of this module is one such run: the part of *)
(* a handler from its start to its fetch, or the part that runs after the  *)
(* fetch settled (try-rest, catch and finally together).  Between the two  *)
(* the request is in flight and any other handler may run.                 *)
(*                                                                         *)
(* Texts are sequences of tokens: a token is one character of the input,   *)
(* or a piece of text that the code itself produced (an entity such as     *)
(* "&lt;", a tag such as "<br>", a literal such as "Error: ").             *)
(* Message times (getCurrentTime, formatTimestamp) and the deferred scroll *)
(* (scrollToBottom) are left out of the rendered nodes: they read the      *)
(* clock and the layout and feed back into nothing.                        *)
(***************************************************************************)
EXTENDS Integers, Sequences, FiniteSets, TLC

VARIABLES
    currentLessonPlan,        \* chat.js:22
    currentLessonIndex,       \* chat.js:23
    isFirstMessage,           \* chat.js:24
    chatInputValue,           \* chatInput.value
    chatInputDisabled,        \* chatInput.disabled
    sendBtnDisabled,          \* sendBtn.disabled
    nextLessonBtnDisabled,    \* nextLessonBtn.disabled
    replayLessonBtnDisabled,  \* replayLessonBtn.disabled
    typingIndicatorDisplay,   \* typingIndicator.style.display
    lessonControlsDisplay,    \* lessonControls.style.display
    welcomeMessage,           \* TRUE while chatMessages holds the .welcome-message node
    chatMessages,             \* the message nodes appended to chatMessages, in order
    lessonList,               \* the .lesson-item nodes of lessonList, in order
    progress,                 \* progressCurrent / progressTotal text
    toast,                    \* toast.textContent and its 'show' class
    toastTimers,              \* number of showToast timeouts not yet fired
    chatRequests,             \* POST /api/chat requests in flight, per handler
    sessionRequest,           \* the GET /api/session request of loadSession
    deleteRequests,           \* DELETE /api/session in flight, per menu action
    reloadTimers,             \* pending setTimeout(() => location.reload(), 1000)
    reloaded,                 \* location.reload() has ended this page session
    event                     \* the event whose handler ran last

vars == << currentLessonPlan, currentLessonIndex, isFirstMessage, chatInputValue,
           chatInputDisabled, sendBtnDisabled, nextLessonBtnDisabled,
           replayLessonBtnDisabled, typingIndicatorDisplay, lessonControlsDisplay,
           welcomeMessage, chatMessages, lessonList, progress, toast, toastTimers,
           chatRequests, sessionRequest, deleteRequests, reloadTimers, reloaded,
           event >>

\* What the chat handlers, loadSession and the toast leave alone.
menuVars == << deleteRequests, reloadTimers, reloaded >>

\* What the menu handlers leave alone.
chatVars == << currentLessonPlan, currentLessonIndex, isFirstMessage, chatInputValue,
               chatInputDisabled, sendBtnDisabled, nextLessonBtnDisabled,
               replayLessonBtnDisabled, typingIndicatorDisplay,
               lessonControlsDisplay, welcomeMessage, chatMessages, lessonList,
               progress, chatRequests, sessionRequest >>

-----------------------------------------------------------------------------
(* Bounds of the model.                                                    *)

\* No handler starts a request while this many POST /api/chat are in flight.
MaxInFlight == 2

\* No handler starts a request once the transcript holds this many nodes.
MaxTranscript == 3

\* No confirmed menu click while this many clears or reloads are pending.
MaxDeletes == 1

\* The longest text rendered through every insertion site.
MaxTextLen == 3

-----------------------------------------------------------------------------
(* Inputs.                                                                 *)

\* What the user can have typed into chatInput.
InputTexts == { <<>>, <<"\n", " ">>, <<" ", "<", "a", " ">> }

\* Message texts the server sends.
ServerTexts == { <<"*", "b", "*", "\n", "&">> }

\* Error texts the server sends.  <<>> stands for an absent error field and
\* for the empty string alike: both are falsy in `if (data.error)`.
ErrorTexts == { <<>>, <<"e", ">">> }

\* Lesson plans the server sends; <<>> also stands for an absent lesson_plan.
ServerPlans == { <<>>, << <<"A">> >>, << <<"A">>, <<"<", "B">> >> }

Absent == "absent"

\* The bodies POST /api/chat answers with (spec.md section 6):
\* { message, lesson_plan?, is_finished?, error? }.
ChatResponses ==
    [ message : ServerTexts,
      lesson_plan : ServerPlans,
      is_finished : { "true", "false", Absent },
      error : ErrorTexts ]

\* The histories GET /api/session answers with: { history: [{sender, message}] }.
\* <<>> also stands for a body without history.
UserEntry == [ sender |-> "user", message |-> <<"a">> ]

AIEntry == [ sender |-> "ai", message |-> <<"o", "k">> ]

Histories == { <<>>, <<UserEntry>>, <<UserEntry, AIEntry>>, <<AIEntry, UserEntry>> }

\* The characters escaping and the markup pass treat specially, and one they
\* do not.
Alphabet == { "<", ">", "&", "*", "\n", "a" }

\* Every text over the alphabet, up to the bound.
Texts == UNION { [ 1..n -> Alphabet ] : n \in 0..MaxTextLen }

\* The data of an event that carries no response body.
NoData == [ message |-> <<>>, lesson_plan |-> <<>>, is_finished |-> Absent, error |-> <<>> ]

-----------------------------------------------------------------------------
(* Pure helpers.                                                           *)

Whitespace == { " ", "\n", "\t" }

RECURSIVE TrimStart(_)
TrimStart(s) ==
    IF s # <<>> /\ Head(s) \in Whitespace THEN TrimStart(Tail(s)) ELSE s

RECURSIVE TrimEnd(_)
TrimEnd(s) ==
    IF s # <<>> /\ s[Len(s)] \in Whitespace
    THEN TrimEnd(SubSeq(s, 1, Len(s) - 1))
    ELSE s

\* A submit handler that forgot to trim.
Trim_Forgotten(s) == s

\* String.prototype.trim
Trim(s) == TrimEnd(TrimStart(s))

\* JavaScript truthiness of an optional string or array field (data.error):
\* absent and empty are falsy.
Truthy(v) == v # <<>>

\* A test that takes every response but an explicit false for finished.
IsFinished_UnlessFalse(data) == data.is_finished # "false"

\* JavaScript truthiness of the optional boolean data.is_finished.
IsFinished(data) == data.is_finished = "true"

EscapeToken(c) ==
    CASE c = "&" -> "&amp;"
      [] c = "<" -> "&lt;"
      [] c = ">" -> "&gt;"
      [] OTHER -> c

\* An escapeHtml that hands the text back as it came.
escapeHtml_Raw(text) == text

\* escapeHtml: textContent in, innerHTML out.
escapeHtml(text) == [ i \in 1..Len(text) |-> EscapeToken(text[i]) ]

LineTerminators == { "\n", "\r" }

Min(S) == CHOOSE x \in S : \A y \in S : x <= y

\* The positions j at which /\*\*(.+?)\*\*/ started at i can close: "**" at
\* j, j+1, at least one token in between and no line terminator among them
\* ('.' matches none).
BoldEnds(s, i) ==
    { j \in (i + 3)..(Len(s) - 1) :
        /\ s[j] = "*"
        /\ s[j + 1] = "*"
        /\ \A k \in (i + 2)..(j - 1) : s[k] \notin LineTerminators }

\* text.replace(/\*\*(.+?)\*\*/g, '<strong>$1</strong>'), from position i on.
RECURSIVE ReplaceBold(_, _)
ReplaceBold(s, i) ==
    IF i > Len(s) THEN <<>>
    ELSE IF i + 1 <= Len(s) /\ s[i] = "*" /\ s[i + 1] = "*" /\ BoldEnds(s, i) # {}
    THEN LET j == Min(BoldEnds(s, i))
         IN  <<"<strong>">> \o SubSeq(s, i + 2, j - 1) \o <<"</strong>">>
                 \o ReplaceBold(s, j + 2)
    ELSE <<s[i]>> \o ReplaceBold(s, i + 1)

\* The positions at which /\*(.+?)\*/ started at i can close.
EmEnds(s, i) ==
    { j \in (i + 2)..Len(s) :
        /\ s[j] = "*"
        /\ \A k \in (i + 1)..(j - 1) : s[k] \notin LineTerminators }

\* text.replace(/\*(.+?)\*/g, '<em>$1</em>'), from position i on.
RECURSIVE ReplaceEm(_, _)
ReplaceEm(s, i) ==
    IF i > Len(s) THEN <<>>
    ELSE IF s[i] = "*" /\ EmEnds(s, i) # {}
    THEN LET j == Min(EmEnds(s, i))
         IN  <<"<em>">> \o SubSeq(s, i + 1, j - 1) \o <<"</em>">> \o ReplaceEm(s, j + 1)
    ELSE <<s[i]>> \o ReplaceEm(s, i + 1)

\* text.replace(/\n/g, '<br>')
ReplaceNewlines(s) == [ i \in 1..Len(s) |-> IF s[i] = "\n" THEN "<br>" ELSE s[i] ]

formatMessage(text) ==
    ReplaceNewlines(ReplaceEm(ReplaceBold(escapeHtml(text), 1), 1))

-----------------------------------------------------------------------------
(* Rendering.                                                              *)

\* The node addUserMessage appends.
UserMessage(text) ==
    [ className |-> "message user", avatar |-> "person", bubble |-> escapeHtml(text) ]

\* The node addAIMessage appends.
AIMessage(text) ==
    [ className |-> "message ai", avatar |-> "robot", bubble |-> formatMessage(text) ]

\* The node addSystemMessage appends.
SystemMessage(text) ==
    [ className |-> "message ai", avatar |-> "warning", bubble |-> escapeHtml(text) ]

\* A loadSession that renders every entry as the tutor's.
HistoryMessage_AllAI(msg) == AIMessage(msg.message)

\* The node loadSession appends for one history entry.
HistoryMessage(msg) ==
    IF msg.sender = "user" THEN UserMessage(msg.message) ELSE AIMessage(msg.message)

\* chatMessages after addUserMessage / addAIMessage / addSystemMessage.
addUserMessage(text) == Append(chatMessages, UserMessage(text))

addAIMessage(text) == Append(chatMessages, AIMessage(text))

\* An addSystemMessage that builds the node and never appends it.
addSystemMessage_NotAppended(text) == chatMessages

addSystemMessage(text) == Append(chatMessages, SystemMessage(text))

SendFailureText == <<"Failed to send message. Please try again.">>
ProcessFailureText == <<"Failed to process request. Please try again.">>
CompletedText == "Lesson plan completed!"
HistoryClearedText == "History cleared successfully"

\* The class of the lesson item at 0-based position index.
LessonItemClass(index, current) ==
    IF index = current THEN "lesson-item active"
    ELSE IF index < current THEN "lesson-item completed"
    ELSE "lesson-item"

\* The items updateLessonPlan builds; number 0 stands for the empty
\* lesson-number of a completed lesson.
LessonItems(lessons, current) ==
    [ i \in 1..Len(lessons) |->
        [ className |-> LessonItemClass(i - 1, current),
          number |-> IF i - 1 < current THEN 0 ELSE i,
          text |-> escapeHtml(lessons[i]) ] ]

\* An updateLessonProgress that leaves the classes as they were rendered.
MarkedItems_Stale(items, plan, current) == items

\* The items after updateLessonProgress: classes are set again when a plan
\* exists and left alone otherwise.
MarkedItems(items, plan, current) ==
    IF Len(plan) > 0
    THEN [ i \in 1..Len(items) |->
             [ items[i] EXCEPT !.className = LessonItemClass(i - 1, current) ] ]
    ELSE items

\* progressCurrent / progressTotal after updateLessonProgress (progressFill
\* is the quotient of the two).
ProgressText(old, plan, current) ==
    IF Len(plan) > 0 THEN [ current |-> current + 1, total |-> Len(plan) ] ELSE old

-----------------------------------------------------------------------------
(* The page as the HTML template delivers it, before chat.js runs.         *)

InitialPage ==
    [ chatInputValue |-> <<>>,
      disabled |-> FALSE,               \* of chatInput and the three buttons
      typingIndicatorDisplay |-> "none",
      lessonControlsDisplay |-> "none",
      welcomeMessage |-> TRUE,
      chatMessages |-> <<>>,
      lessonList |-> <<>>,
      progress |-> [ current |-> 0, total |-> 0 ],
      toast |-> [ text |-> "", show |-> FALSE ] ]

-----------------------------------------------------------------------------
(* State.                                                                  *)

Handlers == { "submit", "next", "replay" }

MenuActions == { "newSession", "clearHistory" }

InFlight == chatRequests["submit"] + chatRequests["next"] + chatRequests["replay"]

\* An event: its name, the chat or menu action it belongs to, the body of the
\* POST /api/chat response it delivers, the history GET /api/session
\* delivers and the answer to confirm().
Event(name, action, data) ==
    [ name |-> name, action |-> action, data |-> data, history |-> <<>>,
      confirmed |-> FALSE ]

\* A finally block that forgot the send button.
SubmitFinally_SendLeft == [ chatInput |-> FALSE, sendBtn |-> sendBtnDisabled ]

\* The disabled flags the finally block of the submit handler leaves.
SubmitFinally == [ chatInput |-> FALSE, sendBtn |-> FALSE ]

\* A finally block that forgot the replay button.
ControlFinally_ReplayLeft ==
    [ chatInput |-> FALSE, sendBtn |-> FALSE, nextLessonBtn |-> FALSE,
      replayLessonBtn |-> replayLessonBtnDisabled ]

\* The disabled flags the finally block of sendControlMessage leaves.
ControlFinally ==
    [ chatInput |-> FALSE, sendBtn |-> FALSE, nextLessonBtn |-> FALSE,
      replayLessonBtn |-> FALSE ]

\* An error test that a response with a lesson plan passes as error-free.
HasError_UnlessPlan(data) == Truthy(data.error) /\ ~Truthy(data.lesson_plan)

\* `if (data.error)`
HasError(data) == Truthy(data.error)

\* A reveal that lost its `if`.
IsFirstExchange_Always == TRUE

\* `if (isFirstMessage)`
IsFirstExchange == isFirstMessage

\* An assignment that writes the flag back.
FirstMessageCleared_Kept == isFirstMessage

\* `isFirstMessage = false`
FirstMessageCleared == FALSE

\* An increment that lost its `if`.
AdvancesLesson_Always(action) == TRUE

\* `if (action === 'next')`
AdvancesLesson(action) == action = "next"

\* The state once the DOMContentLoaded callback has run: the closure
\* variables are set and loadSession() has issued its fetch.  The input
\* field is set apart, for the specification that enumerates texts.
InitExceptInput ==
    /\ currentLessonPlan = <<>>
    /\ currentLessonIndex = 0
    /\ isFirstMessage = TRUE
    /\ chatInputDisabled = InitialPage.disabled
    /\ sendBtnDisabled = InitialPage.disabled
    /\ nextLessonBtnDisabled = InitialPage.disabled
    /\ replayLessonBtnDisabled = InitialPage.disabled
    /\ typingIndicatorDisplay = InitialPage.typingIndicatorDisplay
    /\ lessonControlsDisplay = InitialPage.lessonControlsDisplay
    /\ welcomeMessage = InitialPage.welcomeMessage
    /\ chatMessages = InitialPage.chatMessages
    /\ lessonList = InitialPage.lessonList
    /\ progress = InitialPage.progress
    /\ toast = InitialPage.toast
    /\ toastTimers = 0
    /\ chatRequests = [ h \in Handlers |-> 0 ]
    /\ sessionRequest = "pending"
    /\ deleteRequests = [ a \in MenuActions |-> 0 ]
    /\ reloadTimers = 0
    /\ reloaded = FALSE
    /\ event = Event("DOMContentLoaded", "none", NoData)

Init ==
    /\ chatInputValue = InitialPage.chatInputValue
    /\ InitExceptInput

\* showToast(message)
showToast(message) ==
    /\ toast' = [ text |-> message, show |-> TRUE ]
    /\ toastTimers' = toastTimers + 1

\* A handler may start a request only within the bounds of the model.
WithinBounds == InFlight < MaxInFlight /\ Len(chatMessages) < MaxTranscript

-----------------------------------------------------------------------------
(* The user edits the input field, which a disabled field does not allow.  *)

TypeInput(text) ==
    /\ ~reloaded
    /\ ~chatInputDisabled
    /\ chatInputValue' = text
    /\ event' = Event("input", "none", NoData)
    /\ UNCHANGED << currentLessonPlan, currentLessonIndex, isFirstMessage,
                    chatInputDisabled, sendBtnDisabled, nextLessonBtnDisabled,
                    replayLessonBtnDisabled, typingIndicatorDisplay,
                    lessonControlsDisplay, welcomeMessage, chatMessages, lessonList,
                    progress, toast, toastTimers, chatRequests, sessionRequest >>
    /\ UNCHANGED menuVars

-----------------------------------------------------------------------------
(* chatForm 'submit': the handler up to its fetch.  The event comes from   *)
(* the send button or from Enter in the input field, so one of the two is  *)
(* enabled.                                                                *)

SubmitForm ==
    /\ ~reloaded
    /\ ~chatInputDisabled \/ ~sendBtnDisabled
    /\ event' = Event("submit", "submit", NoData)
    /\ LET message == Trim(chatInputValue)
       IN  IF ~Truthy(message)
           THEN UNCHANGED << currentLessonPlan, currentLessonIndex, isFirstMessage,
                             chatInputValue, chatInputDisabled, sendBtnDisabled,
                             nextLessonBtnDisabled, replayLessonBtnDisabled,
                             typingIndicatorDisplay, lessonControlsDisplay,
                             welcomeMessage, chatMessages, lessonList, progress,
                             toast, toastTimers, chatRequests, sessionRequest >>
           ELSE /\ WithinBounds
                /\ welcomeMessage' = FALSE
                /\ chatMessages' = addUserMessage(message)
                /\ chatInputValue' = <<>>
                /\ chatInputDisabled' = TRUE
                /\ sendBtnDisabled' = TRUE
                /\ typingIndicatorDisplay' = "flex"
                /\ chatRequests' = [ chatRequests EXCEPT !["submit"] = @ + 1 ]
                /\ UNCHANGED << currentLessonPlan, currentLessonIndex,
                                isFirstMessage, nextLessonBtnDisabled,
                                replayLessonBtnDisabled, lessonControlsDisplay,
                                lessonList, progress, toast, toastTimers,
                                sessionRequest >>
    /\ UNCHANGED menuVars

\* The rest of the try block and the finally block, once fetch and
\* response.json() have resolved with data.
SubmitResponse(data) ==
    /\ ~reloaded
    /\ chatRequests["submit"] > 0
    /\ chatRequests' = [ chatRequests EXCEPT !["submit"] = @ - 1 ]
    /\ event' = Event("response", "submit", data)
    /\ typingIndicatorDisplay' = "none"
    /\ IF HasError(data)
       THEN /\ chatMessages' = addSystemMessage(<<"Error: ">> \o data.error)
            /\ UNCHANGED << currentLessonPlan, lessonList, progress,
                            lessonControlsDisplay, isFirstMessage, toast, toastTimers >>
       ELSE /\ IF Truthy(data.lesson_plan)
               THEN /\ currentLessonPlan' = data.lesson_plan
                    /\ lessonList' =
                           MarkedItems(LessonItems(data.lesson_plan, currentLessonIndex),
                                       data.lesson_plan, currentLessonIndex)
                    /\ progress' =
                           ProgressText(progress, data.lesson_plan, currentLessonIndex)
               ELSE UNCHANGED << currentLessonPlan, lessonList, progress >>
            /\ chatMessages' = addAIMessage(data.message)
            /\ IF IsFinished(data)
               THEN /\ lessonControlsDisplay' = "none"
                    /\ showToast(CompletedText)
                    /\ UNCHANGED isFirstMessage
               ELSE /\ IF IsFirstExchange
                       THEN /\ lessonControlsDisplay' = "flex"
                            /\ isFirstMessage' = FirstMessageCleared
                       ELSE UNCHANGED << lessonControlsDisplay, isFirstMessage >>
                    /\ UNCHANGED << toast, toastTimers >>
    /\ chatInputDisabled' = SubmitFinally.chatInput
    /\ sendBtnDisabled' = SubmitFinally.sendBtn
    /\ UNCHANGED << currentLessonIndex, chatInputValue, nextLessonBtnDisabled,
                    replayLessonBtnDisabled, welcomeMessage, sessionRequest >>
    /\ UNCHANGED menuVars

\* The catch block and the finally block, once fetch or response.json()
\* has rejected.
SubmitFailure ==
    /\ ~reloaded
    /\ chatRequests["submit"] > 0
    /\ chatRequests' = [ chatRequests EXCEPT !["submit"] = @ - 1 ]
    /\ event' = Event("failure", "submit", NoData)
    /\ typingIndicatorDisplay' = "none"
    /\ chatMessages' = addSystemMessage(SendFailureText)
    /\ chatInputDisabled' = SubmitFinally.chatInput
    /\ sendBtnDisabled' = SubmitFinally.sendBtn
    /\ UNCHANGED << currentLessonPlan, currentLessonIndex, isFirstMessage,
                    chatInputValue, nextLessonBtnDisabled, replayLessonBtnDisabled,
                    lessonControlsDisplay, welcomeMessage, lessonList, progress,
                    toast, toastTimers, sessionRequest >>
    /\ UNCHANGED menuVars

-----------------------------------------------------------------------------
(* nextLessonBtn / replayLessonBtn 'click': sendControlMessage(action) up  *)
(* to its fetch.  The user can click a button that is shown and enabled.   *)

ButtonDisabled(action) ==
    IF action = "next" THEN nextLessonBtnDisabled ELSE replayLessonBtnDisabled

ControlClick(action) ==
    /\ ~reloaded
    /\ lessonControlsDisplay # "none"
    /\ ~ButtonDisabled(action)
    /\ WithinBounds
    /\ event' = Event("click", action, NoData)
    /\ chatInputDisabled' = TRUE
    /\ sendBtnDisabled' = TRUE
    /\ nextLessonBtnDisabled' = TRUE
    /\ replayLessonBtnDisabled' = TRUE
    /\ typingIndicatorDisplay' = "flex"
    /\ chatRequests' = [ chatRequests EXCEPT ![action] = @ + 1 ]
    /\ UNCHANGED << currentLessonPlan, currentLessonIndex, isFirstMessage,
                    chatInputValue, lessonControlsDisplay, welcomeMessage,
                    chatMessages, lessonList, progress, toast, toastTimers,
                    sessionRequest >>
    /\ UNCHANGED menuVars

\* The rest of the try block and the finally block of sendControlMessage.
ControlResponse(action, data) ==
    /\ ~reloaded
    /\ chatRequests[action] > 0
    /\ chatRequests' = [ chatRequests EXCEPT ![action] = @ - 1 ]
    /\ event' = Event("response", action, data)
    /\ typingIndicatorDisplay' = "none"
    /\ IF HasError(data)
       THEN /\ chatMessages' = addSystemMessage(<<"Error: ">> \o data.error)
            /\ UNCHANGED << currentLessonIndex, lessonList, progress,
                            lessonControlsDisplay, toast, toastTimers >>
       ELSE /\ chatMessages' = addAIMessage(data.message)
            /\ IF AdvancesLesson(action)
               THEN /\ currentLessonIndex' = currentLessonIndex + 1
                    /\ lessonList' = MarkedItems(lessonList, currentLessonPlan,
                                                 currentLessonIndex + 1)
                    /\ progress' = ProgressText(progress, currentLessonPlan,
                                                currentLessonIndex + 1)
               ELSE UNCHANGED << currentLessonIndex, lessonList, progress >>
            /\ IF IsFinished(data)
               THEN /\ lessonControlsDisplay' = "none"
                    /\ showToast(CompletedText)
               ELSE UNCHANGED << lessonControlsDisplay, toast, toastTimers >>
    /\ chatInputDisabled' = ControlFinally.chatInput
    /\ sendBtnDisabled' = ControlFinally.sendBtn
    /\ nextLessonBtnDisabled' = ControlFinally.nextLessonBtn
    /\ replayLessonBtnDisabled' = ControlFinally.replayLessonBtn
    /\ UNCHANGED << currentLessonPlan, isFirstMessage, chatInputValue,
                    welcomeMessage, sessionRequest >>
    /\ UNCHANGED menuVars

\* The catch block and the finally block of sendControlMessage.
ControlFailure(action) ==
    /\ ~reloaded
    /\ chatRequests[action] > 0
    /\ chatRequests' = [ chatRequests EXCEPT ![action] = @ - 1 ]
    /\ event' = Event("failure", action, NoData)
    /\ typingIndicatorDisplay' = "none"
    /\ chatMessages' = addSystemMessage(ProcessFailureText)
    /\ chatInputDisabled' = ControlFinally.chatInput
    /\ sendBtnDisabled' = ControlFinally.sendBtn
    /\ nextLessonBtnDisabled' = ControlFinally.nextLessonBtn
    /\ replayLessonBtnDisabled' = ControlFinally.replayLessonBtn
    /\ UNCHANGED << currentLessonPlan, currentLessonIndex, isFirstMessage,
                    chatInputValue, lessonControlsDisplay, welcomeMessage,
                    lessonList, progress, toast, toastTimers, sessionRequest >>
    /\ UNCHANGED menuVars

-----------------------------------------------------------------------------
(* loadSession after its fetch.                                            *)

LoadSessionResponse(history) ==
    /\ ~reloaded
    /\ sessionRequest = "pending"
    /\ sessionRequest' = "done"
    /\ event' = [ Event("session", "none", NoData) EXCEPT !.history = history ]
    /\ IF Len(history) > 0
       THEN /\ welcomeMessage' = FALSE
            /\ chatMessages' =
                   chatMessages \o [ i \in 1..Len(history) |-> HistoryMessage(history[i]) ]
            /\ isFirstMessage' = FirstMessageCleared
            /\ lessonControlsDisplay' = "flex"
       ELSE UNCHANGED << welcomeMessage, chatMessages, isFirstMessage,
                         lessonControlsDisplay >>
    /\ UNCHANGED << currentLessonPlan, currentLessonIndex, chatInputValue,
                    chatInputDisabled, sendBtnDisabled, nextLessonBtnDisabled,
                    replayLessonBtnDisabled, typingIndicatorDisplay, lessonList,
                    progress, toast, toastTimers, chatRequests >>
    /\ UNCHANGED menuVars

\* The catch block of loadSession: the failure is logged.
LoadSessionFailure ==
    /\ ~reloaded
    /\ sessionRequest = "pending"
    /\ sessionRequest' = "done"
    /\ event' = Event("sessionFailure", "none", NoData)
    /\ UNCHANGED << currentLessonPlan, currentLessonIndex, isFirstMessage,
                    chatInputValue, chatInputDisabled, sendBtnDisabled,
                    nextLessonBtnDisabled, replayLessonBtnDisabled,
                    typingIndicatorDisplay, lessonControlsDisplay, welcomeMessage,
                    chatMessages, lessonList, progress, toast, toastTimers,
                    chatRequests >>
    /\ UNCHANGED menuVars

-----------------------------------------------------------------------------
(* The timeout showToast set fires: the toast loses its 'show' class.      *)

ToastTimeout ==
    /\ ~reloaded
    /\ toastTimers > 0
    /\ toastTimers' = toastTimers - 1
    /\ toast' = [ toast EXCEPT !.show = FALSE ]
    /\ event' = Event("timeout", "none", NoData)
    /\ UNCHANGED << currentLessonPlan, currentLessonIndex, isFirstMessage,
                    chatInputValue, chatInputDisabled, sendBtnDisabled,
                    nextLessonBtnDisabled, replayLessonBtnDisabled,
                    typingIndicatorDisplay, lessonControlsDisplay, welcomeMessage,
                    chatMessages, lessonList, progress, chatRequests,
                    sessionRequest >>
    /\ UNCHANGED menuVars

-----------------------------------------------------------------------------

\* A POST /api/chat request settles: its handler runs to completion.
-----------------------------------------------------------------------------
(* newSessionBtn / clearHistoryBtn 'click': the handler up to the fetch of  *)
(* clearSession.  The dropdown that holds the two buttons is toggled by     *)
(* class changes only and is left out.                                      *)

\* A handler that does not wait for the answer of confirm().
Proceeds_Unasked(confirmed) == TRUE

\* `if (confirm(...))`
Proceeds(confirmed) == confirmed

MenuClick(action, confirmed) ==
    /\ ~reloaded
    /\ event' = [ Event("menuClick", action, NoData) EXCEPT !.confirmed = confirmed ]
    /\ IF Proceeds(confirmed)
       THEN /\ deleteRequests["newSession"] + deleteRequests["clearHistory"]
                   + reloadTimers < MaxDeletes
            /\ deleteRequests' = [ deleteRequests EXCEPT ![action] = @ + 1 ]
       ELSE UNCHANGED deleteRequests
    /\ UNCHANGED << chatVars, toast, toastTimers, reloadTimers, reloaded >>

\* A clearSession without its try/catch: a failed fetch rejects its promise.
clearSessionRejects_NoCatch(failed) == failed

\* Whether `await clearSession()` throws: the catch block logs the failure.
clearSessionRejects(failed) == FALSE

\* The rest of the newSessionBtn handler, once the DELETE has settled.
NewSessionSettled(failed) ==
    /\ ~reloaded
    /\ deleteRequests["newSession"] > 0
    /\ deleteRequests' = [ deleteRequests EXCEPT !["newSession"] = @ - 1 ]
    /\ event' = Event(IF failed THEN "deleteFailure" ELSE "deleted", "newSession", NoData)
    /\ reloaded' = ~clearSessionRejects(failed)
    /\ UNCHANGED << chatVars, toast, toastTimers, reloadTimers >>

\* The rest of the clearHistoryBtn handler, once the DELETE has settled.
ClearHistorySettled(failed) ==
    /\ ~reloaded
    /\ deleteRequests["clearHistory"] > 0
    /\ deleteRequests' = [ deleteRequests EXCEPT !["clearHistory"] = @ - 1 ]
    /\ event' = Event(IF failed THEN "deleteFailure" ELSE "deleted", "clearHistory", NoData)
    /\ IF clearSessionRejects(failed)
       THEN UNCHANGED << toast, toastTimers, reloadTimers >>
       ELSE /\ showToast(HistoryClearedText)
            /\ reloadTimers' = reloadTimers + 1
    /\ UNCHANGED << chatVars, reloaded >>

\* The callback of setTimeout(() => location.reload(), 1000).
ReloadTimeout ==
    /\ ~reloaded
    /\ reloadTimers > 0
    /\ reloadTimers' = reloadTimers - 1
    /\ reloaded' = TRUE
    /\ event' = Event("reload", "clearHistory", NoData)
    /\ UNCHANGED << chatVars, toast, toastTimers, deleteRequests >>

Settle ==
    \/ SubmitFailure
    \/ \E action \in { "next", "replay" } : ControlFailure(action)
    \/ \E data \in ChatResponses : SubmitResponse(data)
    \/ \E action \in { "next", "replay" }, data \in ChatResponses :
           ControlResponse(action, data)

Next ==
    \/ \E text \in InputTexts : TypeInput(text)
    \/ SubmitForm
    \/ \E action \in { "next", "replay" } : ControlClick(action)
    \/ Settle
    \/ \E history \in Histories : LoadSessionResponse(history)
    \/ LoadSessionFailure
    \/ ToastTimeout
    \/ \E action \in MenuActions, confirmed \in BOOLEAN : MenuClick(action, confirmed)
    \/ \E failed \in BOOLEAN : NewSessionSettled(failed)
    \/ \E failed \in BOOLEAN : ClearHistorySettled(failed)
    \/ ReloadTimeout

Spec == Init /\ [][Next]_vars

\* Every request settles: the browser resolves or rejects each fetch.
FairSpec == Spec /\ WF_vars(Settle)

-----------------------------------------------------------------------------
(* The insertion sites as functions of one text: every text of Texts is    *)
(* rendered on the fresh page through each site that writes innerHTML.     *)

EscapeInit ==
    /\ chatInputValue \in Texts
    /\ InitExceptInput

\* The page is as loaded: nothing has been rendered yet.
Fresh == chatMessages = <<>> /\ lessonList = <<>>

\* What rendering one transcript node leaves alone.
renderFrame == << currentLessonPlan, currentLessonIndex, isFirstMessage,
                  chatInputValue, chatInputDisabled, sendBtnDisabled,
                  nextLessonBtnDisabled, replayLessonBtnDisabled,
                  typingIndicatorDisplay, lessonControlsDisplay, welcomeMessage,
                  progress, toast, toastTimers, chatRequests, sessionRequest,
                  menuVars >>

RenderUser ==
    /\ Fresh
    /\ chatMessages' = addUserMessage(chatInputValue)
    /\ event' = Event("render", "user", NoData)
    /\ UNCHANGED << renderFrame, lessonList >>

RenderAI ==
    /\ Fresh
    /\ chatMessages' = addAIMessage(chatInputValue)
    /\ event' = Event("render", "ai", NoData)
    /\ UNCHANGED << renderFrame, lessonList >>

RenderSystem ==
    /\ Fresh
    /\ chatMessages' = addSystemMessage(<<"Error: ">> \o chatInputValue)
    /\ event' = Event("render", "system", NoData)
    /\ UNCHANGED << renderFrame, lessonList >>

RenderHistory(sender) ==
    /\ Fresh
    /\ chatMessages' =
           Append(chatMessages,
                  HistoryMessage([ sender |-> sender, message |-> chatInputValue ]))
    /\ event' = Event("render", "history", NoData)
    /\ UNCHANGED << renderFrame, lessonList >>

RenderTitle ==
    /\ Fresh
    /\ lessonList' = LessonItems(<< chatInputValue >>, currentLessonIndex)
    /\ event' = Event("render", "title", NoData)
    /\ UNCHANGED << renderFrame, chatMessages >>

EscapeNext ==
    \/ RenderUser
    \/ RenderAI
    \/ RenderSystem
    \/ \E sender \in { "user", "ai" } : RenderHistory(sender)
    \/ RenderTitle

EscapeSpec == EscapeInit /\ [][EscapeNext]_vars

-----------------------------------------------------------------------------
(* Vocabulary of the properties.                                           *)

\* The text is empty or whitespace only.
Blank(text) == \A i \in 1..Len(text) : text[i] \in Whitespace

\* This step is the start of a chat action: its handler ran up to the fetch.
Starts(handler) == chatRequests'[handler] = chatRequests[handler] + 1

\* This step is the end of a chat action: its request settled and the rest
\* of its handler ran.
Settles(handler) == chatRequests'[handler] = chatRequests[handler] - 1

\* The step's request settled with a body that carries no error.
ErrorFree == event'.name = "response" /\ ~Truthy(event'.data.error)

\* Exactly one node was appended to the transcript in this step.
OneAppended ==
    /\ Len(chatMessages') = Len(chatMessages) + 1
    /\ SubSeq(chatMessages', 1, Len(chatMessages)) = chatMessages

LastMessage == chatMessages[Len(chatMessages)]

SessionStateUnchanged ==
    UNCHANGED << currentLessonPlan, currentLessonIndex, isFirstMessage,
                 lessonControlsDisplay >>

-----------------------------------------------------------------------------
(* C1: at most one POST /api/chat request is in flight in every reachable  *)
(* state, the user triggering only controls that are enabled and shown.    *)
(* The submit handler leaves the lesson buttons enabled, so the statement  *)
(* is violated.                                                            *)
C1_AtMostOneInFlight == InFlight <= 1

(* C2: in every reachable state with a non-empty lesson plan the lesson    *)
(* index is below the length of the plan.  The index is incremented on     *)
(* every error-free 'next' response, so the statement is violated.         *)
C2_IndexWithinPlan ==
    Len(currentLessonPlan) > 0 => currentLessonIndex < Len(currentLessonPlan)

(* C3: a submission whose trimmed text is non-empty appends exactly one    *)
(* user message in the step that issues its request, and exactly one more  *)
(* message, an AI message or a system message, in the step in which that   *)
(* request resolves or fails.                                              *)
C3_OneUserThenOneReply ==
    [][ /\ event'.name = "submit" /\ ~Blank(chatInputValue) =>
              /\ Starts("submit")
              /\ OneAppended
              /\ chatMessages'[Len(chatMessages')].className = "message user"
        /\ Starts("submit") =>
              /\ event'.name = "submit"
              /\ OneAppended
        /\ Settles("submit") =>
              /\ OneAppended
              /\ chatMessages'[Len(chatMessages')].avatar \in { "robot", "warning" }
      ]_vars

C3_Witness ==
    /\ event.name = "response"
    /\ event.action = "submit"
    /\ ~Truthy(event.data.error)
    /\ Len(chatMessages) >= 2
    /\ LastMessage.avatar = "robot"
    /\ chatMessages[Len(chatMessages) - 1].className = "message user"

(* C4: submitting an empty or whitespace-only text changes nothing: no     *)
(* message is appended, no request is issued, no control is disabled, the  *)
(* typing indicator and the session state stay as they are.                *)
C4_BlankSubmitIsNoOp ==
    [][ event'.name = "submit" /\ Blank(chatInputValue) =>
            UNCHANGED << currentLessonPlan, currentLessonIndex, isFirstMessage,
                         chatInputValue, chatInputDisabled, sendBtnDisabled,
                         nextLessonBtnDisabled, replayLessonBtnDisabled,
                         typingIndicatorDisplay, lessonControlsDisplay,
                         welcomeMessage, chatMessages, lessonList, progress, toast,
                         toastTimers, chatRequests, sessionRequest >>
      ]_vars

\* A whitespace-only text was submitted and is still in the input field.
C4_Witness ==
    /\ event.name = "submit"
    /\ chatInputValue # <<>>
    /\ Blank(chatInputValue)

(* C5: currentLessonIndex changes only in the step that processes an       *)
(* error-free response to a 'next' action, and there it grows by exactly   *)
(* one; no other step changes it.                                          *)
C5_IndexOnlyByNext ==
    [][ /\ Settles("next") /\ ErrorFree =>
              currentLessonIndex' = currentLessonIndex + 1
        /\ currentLessonIndex' # currentLessonIndex =>
              /\ Settles("next")
              /\ ErrorFree
              /\ event'.action = "next"
      ]_vars

\* An error-free replay response has been processed after an advance.
C5_Witness ==
    /\ event.name = "response"
    /\ event.action = "replay"
    /\ ~Truthy(event.data.error)
    /\ currentLessonIndex = 1

(* C6: the step that handles a transport or parse failure of a submit,     *)
(* next or replay request appends exactly one system failure message,      *)
(* leaves plan, index, first-message flag and the visibility of the lesson *)
(* controls as they were, and leaves input and send (for next and replay   *)
(* also both lesson buttons) enabled; the step that started the action     *)
(* left those four pieces of state alone as well.                          *)
C6_FailureKeepsState ==
    [][ /\ event'.name = "failure" =>
              /\ OneAppended
              /\ chatMessages'[Len(chatMessages')] =
                     [ className |-> "message ai", avatar |-> "warning",
                       bubble |-> IF event'.action = "submit"
                                  THEN SendFailureText ELSE ProcessFailureText ]
              /\ SessionStateUnchanged
              /\ ~chatInputDisabled' /\ ~sendBtnDisabled'
              /\ event'.action # "submit" =>
                     ~nextLessonBtnDisabled' /\ ~replayLessonBtnDisabled'
        /\ (\E h \in Handlers : Starts(h)) => SessionStateUnchanged
      ]_vars

\* A 'next' request failed while a plan was shown.
C6_Witness ==
    /\ event.name = "failure"
    /\ event.action = "next"
    /\ Len(currentLessonPlan) > 0
    /\ lessonControlsDisplay = "flex"
    /\ LastMessage.bubble = ProcessFailureText

(* C7: the step in which a request of a submit, next or replay action      *)
(* settles, whatever the outcome, leaves enabled the controls the action   *)
(* disabled; and when every request settles, disabled input and send       *)
(* controls become enabled again, unless the page is reloaded first.       *)
C7_ControlsRestored ==
    /\ [][ /\ Settles("submit") => ~chatInputDisabled' /\ ~sendBtnDisabled'
           /\ Settles("next") \/ Settles("replay") =>
                 /\ ~chatInputDisabled' /\ ~sendBtnDisabled'
                 /\ ~nextLessonBtnDisabled' /\ ~replayLessonBtnDisabled'
         ]_vars
    /\ (chatInputDisabled \/ sendBtnDisabled)
          ~> (~chatInputDisabled /\ ~sendBtnDisabled) \/ reloaded

\* A replay request was answered with an error body and the controls are back.
C7_Witness ==
    /\ event.name = "response"
    /\ event.action = "replay"
    /\ Truthy(event.data.error)
    /\ ~chatInputDisabled /\ ~sendBtnDisabled
    /\ ~nextLessonBtnDisabled /\ ~replayLessonBtnDisabled

(* C8: in every reachable state with a POST /api/chat request in flight,   *)
(* the input field and the send button are disabled.  Violated once two    *)
(* requests overlap (C1): the first to settle enables both.                *)
C8_InputDisabledInFlight ==
    InFlight > 0 => chatInputDisabled /\ sendBtnDisabled

(* C9: the typing indicator is shown in every reachable state with a       *)
(* request in flight and hidden in every one without.  Violated once two   *)
(* requests overlap (C1): the first to settle hides it.                    *)
C9_TypingIffInFlight ==
    /\ InFlight > 0 => typingIndicatorDisplay = "flex"
    /\ InFlight = 0 => typingIndicatorDisplay = "none"

(* C10: the step that processes an error-free response with is_finished    *)
(* true, to any of the three actions, leaves the lesson controls hidden    *)
(* and calls showToast with the completion text exactly once; a step that  *)
(* processes any other outcome of a request calls showToast not at all.    *)
C10_CompletionOncePerResponse ==
    [][ (\E h \in Handlers : Settles(h)) =>
            IF ErrorFree /\ event'.data.is_finished = "true"
            THEN /\ lessonControlsDisplay' = "none"
                 /\ toastTimers' = toastTimers + 1
                 /\ toast' = [ text |-> CompletedText, show |-> TRUE ]
            ELSE UNCHANGED << toast, toastTimers >>
      ]_vars

\* A replay was answered as finished: the controls are gone, the toast is up.
C10_Witness ==
    /\ event.name = "response"
    /\ event.action = "replay"
    /\ ~Truthy(event.data.error)
    /\ event.data.is_finished = "true"
    /\ lessonControlsDisplay = "none"
    /\ toast.show

(* C11: the step in which loadSession receives a history of N > 0 messages *)
(* appends exactly N nodes, in the order of the history and each of the    *)
(* kind of its sender, removes the welcome placeholder, clears             *)
(* isFirstMessage and shows the lesson controls; with an empty or missing  *)
(* history, or a failed fetch, the step appends nothing and leaves the     *)
(* placeholder and isFirstMessage as they are.                             *)
C11_LoadSessionReplaysHistory ==
    [][ /\ event'.name = "session" /\ Len(event'.history) > 0 =>
              /\ Len(chatMessages') = Len(chatMessages) + Len(event'.history)
              /\ SubSeq(chatMessages', 1, Len(chatMessages)) = chatMessages
              /\ \A i \in 1..Len(event'.history) :
                    LET node == chatMessages'[Len(chatMessages) + i]
                        msg == event'.history[i]
                    IN  /\ node.className =
                              IF msg.sender = "user" THEN "message user" ELSE "message ai"
                        /\ node.avatar = IF msg.sender = "user" THEN "person" ELSE "robot"
                        /\ node.bubble = IF msg.sender = "user"
                                         THEN escapeHtml(msg.message)
                                         ELSE formatMessage(msg.message)
              /\ ~welcomeMessage'
              /\ ~isFirstMessage'
              /\ lessonControlsDisplay' = "flex"
        /\ \/ event'.name = "session" /\ Len(event'.history) = 0
           \/ event'.name = "sessionFailure"
           => UNCHANGED << chatMessages, welcomeMessage, isFirstMessage >>
      ]_vars

\* A history of two messages, the tutor's first, has been replayed.
C11_Witness ==
    /\ event.name = "session"
    /\ Len(event.history) = 2
    /\ event.history[1].sender = "ai"
    /\ Len(chatMessages) = 2
    /\ chatMessages[1].avatar = "robot"
    /\ chatMessages[2].avatar = "person"
    /\ ~welcomeMessage
    /\ ~isFirstMessage

(* C12: no step removes, edits or reorders a rendered message, and the     *)
(* history loadSession replays comes before every message of a submit,     *)
(* next or replay action: when it is replayed, the transcript holds no     *)
(* message yet.  The input field is enabled while GET /api/session is      *)
(* pending, so the second half is violated.                                *)
C12_AppendOnlyHistoryFirst ==
    [][ /\ Len(chatMessages') >= Len(chatMessages)
        /\ SubSeq(chatMessages', 1, Len(chatMessages)) = chatMessages
        /\ event'.name = "session" /\ Len(event'.history) > 0 => chatMessages = <<>>
      ]_vars

(* C13 as claimed: the step that processes an error-free response to a     *)
(* submitted message while isFirstMessage is set clears the flag and,      *)
(* unless is_finished is true, shows the lesson controls; the flag, once   *)
(* false, stays false.  A response with is_finished true leaves the flag   *)
(* set, so the statement is violated.                                      *)
C13_FirstExchangeClearsFlag ==
    [][ /\ Settles("submit") /\ ErrorFree /\ isFirstMessage =>
              /\ ~isFirstMessage'
              /\ event'.data.is_finished # "true" => lessonControlsDisplay' = "flex"
        /\ ~isFirstMessage => ~isFirstMessage'
      ]_vars

(* C13 as amended: the step that processes an error-free response whose    *)
(* is_finished is not true to a submitted message, while isFirstMessage is *)
(* set, clears the flag and shows the lesson controls; an error-free       *)
(* response with is_finished true leaves the flag as it is; the flag, once *)
(* false, stays false.                                                     *)
C13_FirstUnfinishedExchangeClearsFlag ==
    [][ /\ Settles("submit") /\ ErrorFree /\ isFirstMessage =>
              IF event'.data.is_finished = "true"
              THEN isFirstMessage'
              ELSE ~isFirstMessage' /\ lessonControlsDisplay' = "flex"
        /\ ~isFirstMessage => ~isFirstMessage'
      ]_vars

\* The first exchange, with no history restored, has shown the controls.
C13_Witness ==
    /\ event.name = "response"
    /\ event.action = "submit"
    /\ ~Truthy(event.data.error)
    /\ event.data.is_finished # "true"
    /\ sessionRequest = "pending"
    /\ Len(chatMessages) = 2
    /\ ~isFirstMessage
    /\ lessonControlsDisplay = "flex"

(* C14: in every reachable state with a lesson plan the sidebar holds one  *)
(* entry per title, in plan order; the entry at currentLessonIndex is      *)
(* active, the entries before it are completed, the entries after it are   *)
(* neither.                                                                *)
C14_SidebarMirrorsPlan ==
    Len(currentLessonPlan) > 0 =>
        /\ Len(lessonList) = Len(currentLessonPlan)
        /\ \A i \in 1..Len(lessonList) :
              /\ lessonList[i].text = escapeHtml(currentLessonPlan[i])
              /\ i - 1 = currentLessonIndex =>
                    lessonList[i].className = "lesson-item active"
              /\ i - 1 < currentLessonIndex =>
                    lessonList[i].className = "lesson-item completed"
              /\ i - 1 > currentLessonIndex =>
                    lessonList[i].className = "lesson-item"

\* After one advance on a two-lesson plan: first completed, second active.
C14_Witness ==
    /\ Len(currentLessonPlan) = 2
    /\ currentLessonIndex = 1
    /\ Len(lessonList) = 2
    /\ lessonList[1].className = "lesson-item completed"
    /\ lessonList[2].className = "lesson-item active"

(* C15: the step that processes a response with an error field, to any of  *)
(* the three actions, appends exactly one system message with the error    *)
(* text and changes neither plan, index, first-message flag, visibility of *)
(* the lesson controls, sidebar nor toast, whatever else the response      *)
(* carries.                                                                *)
C15_ErrorResponseKeepsState ==
    [][ (\E h \in Handlers : Settles(h))
          /\ event'.name = "response" /\ event'.data.error # <<>> =>
              /\ OneAppended
              /\ chatMessages'[Len(chatMessages')] =
                     [ className |-> "message ai", avatar |-> "warning",
                       bubble |-> <<"Error: ">> \o escapeHtml(event'.data.error) ]
              /\ SessionStateUnchanged
              /\ UNCHANGED << lessonList, progress, toast, toastTimers >>
      ]_vars

\* An error body that also carried a plan and is_finished was processed.
C15_Witness ==
    /\ event.name = "response"
    /\ event.action = "submit"
    /\ event.data.error # <<>>
    /\ event.data.lesson_plan # <<>>
    /\ event.data.is_finished = "true"
    /\ LastMessage.avatar = "warning"
    /\ currentLessonPlan = <<>>
    /\ toastTimers = 0 /\ ~toast.show

(* C16: a DELETE /api/session request is issued only by the step of a      *)
(* 'new session' or 'clear history' click whose dialog was confirmed; a    *)
(* click whose dialog was declined changes nothing on the page; the        *)
(* 'History cleared' notification and the reload timer come only from the  *)
(* step that settles a DELETE of 'clear history', and the page reloads     *)
(* only in the step that settles a DELETE of 'new session' or in which a   *)
(* reload timer fires.                                                     *)
C16_DestructiveActionsConfirmed ==
    [][ /\ \A a \in MenuActions :
              deleteRequests'[a] > deleteRequests[a] =>
                  event'.name = "menuClick" /\ event'.action = a /\ event'.confirmed
        /\ event'.name = "menuClick" /\ ~event'.confirmed =>
              UNCHANGED << chatVars, toast, toastTimers, menuVars >>
        /\ \/ toastTimers' > toastTimers /\ toast'.text = HistoryClearedText
           \/ reloadTimers' > reloadTimers
           => /\ deleteRequests["clearHistory"] > 0
              /\ deleteRequests'["clearHistory"] = deleteRequests["clearHistory"] - 1
        /\ reloaded' /\ ~reloaded =>
              \/ /\ deleteRequests["newSession"] > 0
                 /\ deleteRequests'["newSession"] = deleteRequests["newSession"] - 1
              \/ reloadTimers > 0 /\ reloadTimers' = reloadTimers - 1
      ]_vars

\* A 'clear history' dialog was declined on a page that holds a transcript.
C16_Witness ==
    /\ event.name = "menuClick"
    /\ event.action = "clearHistory"
    /\ ~event.confirmed
    /\ Len(chatMessages) > 0
    /\ deleteRequests = [ a \in MenuActions |-> 0 ]
    /\ reloadTimers = 0
    /\ ~reloaded

(* C17: for every text, the markup each insertion site writes (user, AI,   *)
(* system and restored message, lesson title) holds no '<', '>' or '&' of  *)
(* the text, only their entities; the strong, em and br tags of the markup *)
(* pass appear in AI messages only, and no other tag appears anywhere.     *)
C17_InsertedTextEscaped ==
    /\ \A i \in 1..Len(chatMessages) :
          \A j \in 1..Len(chatMessages[i].bubble) :
              LET token == chatMessages[i].bubble[j]
              IN  /\ token \notin { "<", ">", "&" }
                  /\ token \in { "<strong>", "</strong>", "<em>", "</em>", "<br>" } =>
                         chatMessages[i].avatar = "robot"
    /\ \A i \in 1..Len(lessonList) :
          \A j \in 1..Len(lessonList[i].text) :
              lessonList[i].text[j] \notin
                  { "<", ">", "&", "<strong>", "</strong>", "<em>", "</em>", "<br>" }

\* The AI text *<* was rendered: an em element around the entity of '<'.
C17_Witness ==
    /\ chatInputValue = << "*", "<", "*" >>
    /\ Len(chatMessages) = 1
    /\ chatMessages[1].avatar = "robot"
    /\ chatMessages[1].bubble = << "<em>", "&lt;", "</em>" >>

(* C18: the step that settles the DELETE of a 'new session' click reloads  *)
(* the page, whether the request resolved or failed; the step that settles *)
(* the DELETE of a 'clear history' click, whether it resolved or failed,   *)
(* shows the 'History cleared' notification and starts the reload timer    *)
(* without reloading; and the page reloads in no other step than these     *)
(* settling steps of 'new session' and the firing of a reload timer.       *)
C18_ReloadAfterDeleteSettles ==
    [][ /\ deleteRequests'["newSession"] < deleteRequests["newSession"] => reloaded'
        /\ deleteRequests'["clearHistory"] < deleteRequests["clearHistory"] =>
              /\ toast' = [ text |-> HistoryClearedText, show |-> TRUE ]
              /\ toastTimers' = toastTimers + 1
              /\ reloadTimers' = reloadTimers + 1
              /\ ~reloaded'
        /\ reloaded' /\ ~reloaded =>
              \/ /\ event'.name \in { "deleted", "deleteFailure" }
                 /\ event'.action = "newSession"
                 /\ deleteRequests'["newSession"] < deleteRequests["newSession"]
              \/ /\ event'.name = "reload"
                 /\ reloadTimers' < reloadTimers
                 /\ UNCHANGED deleteRequests
      ]_vars

\* The DELETE of a 'new session' click failed and the page was reloaded.
C18_Witness ==
    /\ event.name = "deleteFailure"
    /\ event.action = "newSession"
    /\ reloaded
    /\ deleteRequests["newSession"] = 0

(* C19: once a completion has hidden the lesson controls (the page's last  *)
(* notification is the completion notification and the controls are        *)
(* hidden), no step makes the controls visible again.                      *)
C19_CompletionIsFinal ==
    [][ toast.text = CompletedText /\ lessonControlsDisplay = "none" =>
            lessonControlsDisplay' = "none"
      ]_vars

====
